---- MODULE Spec2Model ----
(***************************************************************************)
(* A model of ch06/01_dqn_pong.py: the frame stacker (BufferWrapper), the  *)
(* replay buffer (ExperienceBuffer), the Agent, the TargetNet holder,      *)
(* calc_loss and the training loop of __main__.                            *)
(*                                                                         *)
(* numpy arrays and torch modules are objects with identity: an array is   *)
(* an index into `heap`, a torch module an index into `models`, so that    *)
(* in-place updates, .copy() and copy.deepcopy() mean what they mean in    *)
(* Python.  The emulator, the random generators and the weight             *)
(* initialisation are inputs, drawn from small sets.                       *)
(***************************************************************************)
EXTENDS Integers, Sequences, FiniteSets, TLC

(* ------------------------------------------------------------------ *)
(* Program constants.                                                   *)
(* ------------------------------------------------------------------ *)

\* n_steps=4 of BufferWrapper(...), the depth of the frame stack.
N_STEPS == 4

\* GAMMA = 0.99, as the fraction GAMMA_NUM / GAMMA_DEN.  Action values are
\* integers; targets, and the values they are compared with, are counted in
\* units of 1 / GAMMA_DEN.
GAMMA_NUM == 99
GAMMA_DEN == 100

\* The floor 0.1 of epsilon = max(0.1, 1.0 - frame_idx / 10**6), as the
\* fraction EPS_FLOOR_NUM / EPS_FLOOR_DEN.
EPS_FLOOR_NUM == 1
EPS_FLOOR_DEN == 10

(* ------------------------------------------------------------------ *)
(* Bounds of the model.                                                 *)
(* ------------------------------------------------------------------ *)

\* Largest capacity an ExperienceBuffer is constructed with on its own.
MaxCap == 3
\* Longest sequence of append calls made on an ExperienceBuffer on its own.
MaxAppends == 4
\* Largest batch_size passed to sample on its own.
MaxK == 4
\* Longest episode (observations after the reset) of the frame stacker on its own.
MaxEpLen == 5
\* Most episodes begun in a run (resets of the environment), of the frame
\* stacker on its own and of the whole program.
MaxResets == 2

\* Longest batch handed to calc_loss on its own.
MaxBatch == 2
\* Most play_step calls made on an Agent on its own.
MaxPlaySteps == 2
\* Most calls (sync, or an update of the model's parameters by its owner) made
\* on a TargetNet on its own.
MaxTgtCalls == 4

\* The program's sizes, scaled down (the script's values are in the comments);
\* the order BATCH_SIZE <= REPLAY_START_SIZE <= REPLAY_SIZE of the script is kept.
\* BATCH_SIZE = 32
BATCH_SIZE == 2
\* REPLAY_SIZE = 20000
REPLAY_SIZE == 3
\* REPLAY_START_SIZE = 5000
REPLAY_START_SIZE == 2
\* SYNC_TARGET_FRAMES = 10000
SYNC_TARGET_FRAMES == 2
\* the 10**6 of epsilon = max(0.1, 1.0 - frame_idx / 10**6)
EPS_DECAY_FRAMES == 2
\* The training loop runs for ever; the model stops it after this many
\* iterations: long enough for epsilon to reach its floor and for a second
\* period of the target sync to begin.
MaxFrames == 3

\* env.action_space: the actions 0 .. n-1 (Pong has 6; 2 here).
Actions == {0, 1}
\* The rewards the emulator can give.
Rewards == {0, 1}
\* What the emulator and action_space.sample() give in the run of the whole
\* program: one frame, one reward, one random action; an episode can end at
\* any step until MaxResets episodes have begun.
MainFrames == {1}
MainRewards == {1}
MainSampled == {0}

\* The transitions appended to a buffer on its own: opaque objects.
Items == {"A", "B", "C", "D"}
\* The preprocessed frames the emulator can emit; 0 is the zero fill.
Frames == {1, 2}

VARIABLES
    heap,        \* the numpy arrays allocated so far: array id -> contents
    env_buffer,  \* BufferWrapper.buffer: the id of the live window, 0 before the first reset
    ep_frames,   \* history: the frames handed to _observation since the last _reset
    n_resets,    \* history: the number of _reset calls
    exp_buffer,  \* the ExperienceBuffer: [capacity, buffer]
    appended,    \* history: every experience passed to append, in order
    batch_size,  \* the batch_size of the last call when it was a sample call, else 0
    indices,     \* the indices np.random.choice returned to the last sample call
    batch,       \* the list the last sample call returned
    raised,      \* the exception the last call raised, "" when it returned
    agent,       \* the Agent: [state (an array id), total_reward]
    ep_rewards,  \* history: the rewards of the steps since the agent's last _reset
    done_reward, \* what the last play_step call returned: <<>> is None, <<r>> the number r
    models,      \* the torch modules constructed so far: module id -> [w, grad]
    net,         \* the value network: a module id
    tgt_net,     \* the TargetNet: [model, target_model], two module ids
    tgt_calls,   \* history: the calls made on the TargetNet and the model's updates
    y,           \* calc_loss: the training targets y, one row of action values per sample
    loss_v,      \* calc_loss: the loss, as the fraction [num, den]
    epsilon,     \* epsilon, in units of 1 / EpsUnits
    frame_idx,   \* frame_idx of the training loop
    warm,        \* the iterations of the warmup loop done so far
    pc           \* where the program is

vars == <<heap, env_buffer, ep_frames, n_resets, exp_buffer, appended, batch_size,
          indices, batch, raised, agent, ep_rewards, done_reward, models, net,
          tgt_net, tgt_calls, y, loss_v, epsilon, frame_idx, warm, pc>>

stackVars == <<heap, env_buffer, ep_frames, n_resets>>
agentVars == <<agent, ep_rewards, done_reward>>
netVars == <<models, net, tgt_net, tgt_calls>>
lossVars == <<y, loss_v>>
loopVars == <<epsilon, frame_idx, warm, pc>>
bufVars == <<exp_buffer, appended, batch_size, indices, batch, raised>>

(* ------------------------------------------------------------------ *)
(* Sequences.                                                           *)
(* ------------------------------------------------------------------ *)

Min(a, b) == IF a < b THEN a ELSE b
Max(a, b) == IF a > b THEN a ELSE b

\* The last k elements of s (all of s when it is shorter).
LastK(s, k) == SubSeq(s, Len(s) - Min(k, Len(s)) + 1, Len(s))

\* The sequences of length k over the set S.
SeqsOfLen(S, k) == [1..k -> S]

IsInjective(s) == \A i, j \in DOMAIN s : i # j => s[i] # s[j]

(* ------------------------------------------------------------------ *)
(* numpy arrays.                                                        *)
(* ------------------------------------------------------------------ *)

\* np.zeros_like(self.observation_space.low): a fresh array of N_STEPS zero frames.
ZerosLike == [i \in 1..N_STEPS |-> 0]

\* The id the next allocated array gets.
NewId(h) == Len(h) + 1

\* ndarray.copy(): a fresh array with the contents of array id.
ArrayCopy(h, id) == Append(h, h[id])

(* ------------------------------------------------------------------ *)
(* BufferWrapper.                                                       *)
(* ------------------------------------------------------------------ *)

\* self.buffer[:-1] = self.buffer[1:]
ShiftOlder(a) == [i \in 1..N_STEPS |-> IF i < N_STEPS THEN a[i + 1] ELSE a[i]]

\* BufferWrapper._observation: updates the window in place and returns it
\* (the same array object, id b).
BW_observationAliased(h, b, observation) ==
    [i \in 1..Len(h) |->
        IF i >= b THEN [ShiftOlder(h[i]) EXCEPT ![N_STEPS] = observation] ELSE h[i]]
BW_observation(h, b, observation) ==
    [h EXCEPT ![b] = [ShiftOlder(h[b]) EXCEPT ![N_STEPS] = observation]]

\* BufferWrapper._reset: a fresh zero window, then the first frame through
\* _observation.  The heap after the call; the window is the array NewId(h).
BW_resetKeep(h, b, observation) ==
    IF b = 0 THEN BW_observation(Append(h, ZerosLike), NewId(h), observation)
    ELSE BW_observation(Append(h, h[b]), NewId(h), observation)
BW_reset(h, b, observation) ==
    BW_observation(Append(h, ZerosLike), NewId(h), observation)

(* ------------------------------------------------------------------ *)
(* ExperienceBuffer.                                                    *)
(* ------------------------------------------------------------------ *)

\* ExperienceBuffer.__init__
EB_init(capacity) == [capacity |-> capacity, buffer |-> <<>>]

\* ExperienceBuffer.__len__
EB_len(eb) == Len(eb.buffer)

\* while len(self.buffer) > self.capacity: self.buffer.popleft()
PopLeftAll(b, capacity) == IF Len(b) > capacity THEN <<>> ELSE b
RECURSIVE PopLeftWhileOff(_, _)
PopLeftWhileOff(b, capacity) ==
    IF Len(b) >= capacity /\ b # <<>> THEN PopLeftWhileOff(Tail(b), capacity) ELSE b
RECURSIVE PopLeftWhile(_, _)
PopLeftWhile(b, capacity) ==
    IF Len(b) > capacity THEN PopLeftWhile(Tail(b), capacity) ELSE b

\* ExperienceBuffer.append
EB_append(eb, experience) ==
    [eb EXCEPT !.buffer = PopLeftWhile(Append(eb.buffer, experience), eb.capacity)]

\* np.random.choice(n, k, replace=False): the results it can give, as
\* [raised, idx]: k pairwise distinct indices of 0..n-1 in any order, or a
\* ValueError when the population is smaller than the sample.
ChoiceReplace(n, k) ==
    IF n = 0
    THEN {[raised |-> "ValueError", idx |-> <<>>]}
    ELSE {[raised |-> "", idx |-> s] : s \in SeqsOfLen(0..(n - 1), k)}
Choice(n, k) ==
    IF k > n
    THEN {[raised |-> "ValueError", idx |-> <<>>]}
    ELSE {[raised |-> "", idx |-> s] : s \in {t \in SeqsOfLen(0..(n - 1), k) : IsInjective(t)}}

\* [self.buffer[idx] for idx in indices]
EB_pick(eb, idx) == [i \in 1..Len(idx) |-> eb.buffer[idx[i] + 1]]

(* ------------------------------------------------------------------ *)
(* DQN.  The convolutional network is abstracted to a linear one: the   *)
(* parameters are one weight per action and the value of an action is   *)
(* its weight times the sum of the input's frames.                      *)
(* ------------------------------------------------------------------ *)

RECURSIVE SumSeq(_)
SumSeq(s) == IF s = <<>> THEN 0 ELSE s[1] + SumSeq(Tail(s))

\* The parameter values a DQN can have.
Weights == [Actions -> {0, 1}]

\* DQN.__init__: parameters as initialised, no gradient yet (grad is None).
DQN_init(w) == [w |-> w, grad |-> <<>>]

\* DQN.forward on one input x.
DQN_forward(w, x) ==
    LET sum == SumSeq(x)
    IN  [a \in Actions |-> w[a] * sum]

\* torch.max(q_vals_v, dim=1) / np.max: the maximal value, and the indices
\* that can be returned for it.
MaxQ(q) == CHOOSE v \in {q[a] : a \in Actions} : \A b \in Actions : q[b] <= v
ArgMax(q) == {a \in Actions : q[a] = MaxQ(q)}

(* ------------------------------------------------------------------ *)
(* epsilon.                                                             *)
(* ------------------------------------------------------------------ *)

\* epsilon is counted in units of 1 / EpsUnits; EpsOne is 1.0.
EpsUnits == EPS_FLOOR_DEN * EPS_DECAY_FRAMES
EpsOne == EpsUnits
EpsFloor == EPS_FLOOR_NUM * EPS_DECAY_FRAMES

\* max(0.1, 1.0 - frame_idx / 10**6)   (python3: / is the true division)
EpsilonFloorDiv(f) == Max(EpsFloor, EpsOne - EpsUnits * (f \div EPS_DECAY_FRAMES))
EpsilonAt(f) == Max(EpsFloor, EpsOne - EPS_FLOOR_DEN * f)

(* ------------------------------------------------------------------ *)
(* Agent.                                                               *)
(* ------------------------------------------------------------------ *)

None == <<>>

\* Agent._reset: self.state = env.reset().copy(); self.total_reward = 0.0.
\* f0 is the emulator's first frame.  The heap, the window and the agent after it.
Agent_resetKeepTotal(h, b, self, f0) ==
    LET h1 == BW_reset(h, b, f0)
    IN  [heap |-> ArrayCopy(h1, NewId(h)),
         env_buffer |-> NewId(h),
         agent |-> [state |-> NewId(h1), total_reward |-> self.total_reward]]
Agent_resetKeepState(h, b, self, f0) ==
    LET h1 == BW_reset(h, b, f0)
    IN  [heap |-> ArrayCopy(h1, NewId(h)),
         env_buffer |-> NewId(h),
         agent |-> [state |-> IF self.state = 0 THEN NewId(h1) ELSE self.state,
                    total_reward |-> 0]]
Agent_reset(h, b, self, f0) ==
    LET h1 == BW_reset(h, b, f0)
    IN  [heap |-> ArrayCopy(h1, NewId(h)),
         env_buffer |-> NewId(h),
         agent |-> [state |-> NewId(h1), total_reward |-> 0]]

\* Agent.play_step(net, epsilon), n the module id of net (0 is None), with the
\* results of action_space.sample() in A and the emulator's frames in F,
\* rewards in R and is_done flags in D.
\*   explore  np.random.random() < epsilon; the draw is in [0, 1)
\*   action   env.action_space.sample(), or an index of the maximum of net(state)
\*   f, reward, is_done   what env.step(action) gives
\*   f0       the first frame of the next episode
Agent_play_step(n, eps, A, F, R, D) ==
    \E explore \in BOOLEAN, is_done \in D, action \in Actions, f, f0 \in F, reward \in R :
        /\ explore => eps > 0 /\ action \in A
        /\ ~explore => eps < EpsOne
        /\ IF ~explore /\ n = 0
           THEN \* net(state_v) with net None
                /\ raised' = "TypeError"
                /\ UNCHANGED <<heap, env_buffer, ep_frames, n_resets, exp_buffer,
                               appended, agent, ep_rewards, done_reward>>
           ELSE /\ ~explore => action \in ArgMax(DQN_forward(models[n].w, heap[agent.state]))
                /\ LET h1 == BW_observation(heap, env_buffer, f)
                       h2 == ArrayCopy(h1, env_buffer)
                       new_state == NewId(h1)
                       total == agent.total_reward + reward
                       exp == [state |-> agent.state, action |-> action, reward |-> reward,
                               done |-> is_done, new_state |-> new_state]
                       moved == [state |-> new_state, total_reward |-> total]
                       r == Agent_reset(h2, env_buffer, moved, f0)
                   IN  /\ raised' = ""
                       /\ exp_buffer' = EB_append(exp_buffer, exp)
                       /\ appended' = Append(appended, exp)
                       /\ IF is_done
                          THEN /\ done_reward' = <<total>>
                               /\ heap' = r.heap
                               /\ env_buffer' = r.env_buffer
                               /\ agent' = r.agent
                               /\ ep_frames' = <<f0>>
                               /\ ep_rewards' = <<>>
                               /\ n_resets' = n_resets + 1
                          ELSE /\ done_reward' = None
                               /\ heap' = h2
                               /\ env_buffer' = env_buffer
                               /\ agent' = moved
                               /\ ep_frames' = Append(ep_frames, f)
                               /\ ep_rewards' = Append(ep_rewards, reward)
                               /\ n_resets' = n_resets

(* ------------------------------------------------------------------ *)
(* TargetNet.                                                           *)
(* ------------------------------------------------------------------ *)

\* copy.deepcopy(model): a new module with the same parameter values.
CopyReference(ms, model) == [models |-> ms, id |-> model]
DeepCopy(ms, model) == [models |-> Append(ms, ms[model]), id |-> Len(ms) + 1]

\* TargetNet.__init__
TargetNet_initFresh(ms, model) ==
    [models |-> Append(ms, DQN_init([a \in Actions |-> 0])),
     tgt_net |-> [model |-> model, target_model |-> Len(ms) + 1]]
TargetNet_init(ms, model) ==
    LET c == DeepCopy(ms, model)
    IN  [models |-> c.models, tgt_net |-> [model |-> model, target_model |-> c.id]]

\* Module.state_dict(): the parameter values (not the gradients).
StateDict(m) == m.w

\* Module.load_state_dict(state_dict): copies the values into the parameters.
LoadNothing(m, state_dict) == m
LoadStateDict(m, state_dict) == [m EXCEPT !.w = state_dict]

\* TargetNet.sync
TargetNet_sync(ms, tn) ==
    [ms EXCEPT ![tn.target_model] = LoadStateDict(@, StateDict(ms[tn.model]))]

(* ------------------------------------------------------------------ *)
(* calc_loss and the gradient.                                          *)
(* ------------------------------------------------------------------ *)

\* R = exp.reward; if not exp.done: R += GAMMA * np.max(new_q[idx])
\* (in units of 1 / GAMMA_DEN), new_q_row being new_q[idx]
CL_R_IgnoreDone(exp, new_q_row) ==
    GAMMA_DEN * exp.reward + GAMMA_NUM * MaxQ(new_q_row)
CL_R(exp, new_q_row) ==
    GAMMA_DEN * exp.reward + (IF ~exp.done THEN GAMMA_NUM * MaxQ(new_q_row) ELSE 0)

\* q_v[idx] = net(exp.state), in units of 1 / GAMMA_DEN.
CL_q_row(w, h, exp) ==
    LET q == DQN_forward(w, h[exp.state])
    IN  [a \in Actions |-> GAMMA_DEN * q[a]]

\* y[idx]: a copy of q_v[idx] with y[idx][exp.action] = R, the next state's
\* values new_q[idx] coming from the same net.
CL_y_row(w, h, exp) ==
    [CL_q_row(w, h, exp) EXCEPT ![exp.action] = CL_R(exp, DQN_forward(w, h[exp.new_state]))]

\* q_v and y for the batch b, one row per sample.
CL_q(w, h, b) == [i \in 1..Len(b) |-> CL_q_row(w, h, b[i])]
CL_y(w, h, b) == [i \in 1..Len(b) |-> CL_y_row(w, h, b[i])]

\* The sum of row[a] over the actions a in A.
RECURSIVE SumActions(_, _)
SumActions(row, A) ==
    IF A = {} THEN 0
    ELSE LET a == CHOOSE x \in A : TRUE IN row[a] + SumActions(row, A \ {a})

\* nn.MSELoss()(q_v, y_v): the mean of the squared differences over all the
\* elements of the two tensors, as the fraction num / den in units of
\* 1 / GAMMA_DEN^2.
MSELoss(q_v, y_v) ==
    [num |-> SumSeq([i \in 1..Len(q_v) |->
                        LET q_row == q_v[i]
                            y_row == y_v[i]
                        IN  SumActions([a \in Actions |->
                                           (q_row[a] - y_row[a]) * (q_row[a] - y_row[a])],
                                       Actions)]),
     den |-> Len(q_v) * Cardinality(Actions)]

\* calc_loss(batch, net)
calc_loss(w, h, b) ==
    LET q_v == CL_q(w, h, b)
        y_v == CL_y(w, h, b)
    IN  MSELoss(q_v, y_v)

\* The gradient of the loss with respect to the weights, up to the positive
\* factor 2 / den: for the weight of action a, the sum of error * input.
Gradient(w, h, b) ==
    LET q_v == CL_q(w, h, b)
        y_v == CL_y(w, h, b)
    IN  [a \in Actions |->
            SumSeq([i \in 1..Len(b) |-> (q_v[i][a] - y_v[i][a]) * SumSeq(h[b[i].state])])]

\* optimizer.zero_grad(): zeroes the gradients that exist.
Optimizer_zero_grad(m) ==
    IF m.grad = None THEN m ELSE [m EXCEPT !.grad = <<[a \in Actions |-> 0]>>]

\* loss_v.backward(): adds the gradient to the parameters' .grad.
Backward(m, g) ==
    [m EXCEPT !.grad = IF @ = None THEN <<g>> ELSE <<[a \in Actions |-> @[1][a] + g[a]]>>]

(* ------------------------------------------------------------------ *)
(* The values of the variables a part of the program does not have.     *)
(* ------------------------------------------------------------------ *)

NoBuffer == [capacity |-> 0, buffer |-> <<>>]
NoAgent == [state |-> 0, total_reward |-> 0]
NoLoss == [num |-> 0, den |-> 0]

InitNoStack == heap = <<>> /\ env_buffer = 0 /\ ep_frames = <<>> /\ n_resets = 0
InitNoCall == appended = <<>> /\ batch_size = 0 /\ indices = <<>> /\ batch = <<>> /\ raised = ""
InitNoAgent == agent = NoAgent /\ ep_rewards = <<>> /\ done_reward = None
InitNoNet ==
    /\ models = <<>>
    /\ net = 0
    /\ tgt_net = [model |-> 0, target_model |-> 0]
    /\ tgt_calls = <<>>
InitNoLoss == y = <<>> /\ loss_v = NoLoss
InitNoLoop == epsilon = EpsOne /\ frame_idx = 0 /\ warm = 0 /\ pc = "unit"

(* ------------------------------------------------------------------ *)
(* The frame stacker on its own: any sequence of resets and steps.      *)
(* ------------------------------------------------------------------ *)

InitStack ==
    /\ InitNoStack
    /\ exp_buffer = NoBuffer
    /\ InitNoCall
    /\ InitNoAgent
    /\ InitNoNet
    /\ InitNoLoss
    /\ InitNoLoop

\* env.reset() of the BufferWrapper; the emulator's first frame is f.
StackReset ==
    \E f \in Frames :
        /\ n_resets < MaxResets
        /\ heap' = BW_reset(heap, env_buffer, f)
        /\ env_buffer' = NewId(heap)
        /\ ep_frames' = <<f>>
        /\ n_resets' = n_resets + 1
        /\ UNCHANGED <<bufVars, agentVars, netVars, lossVars, loopVars>>

\* env.step(action) of the BufferWrapper; the emulator's next frame is f.
StackStep ==
    \E f \in Frames :
        /\ env_buffer # 0
        /\ Len(ep_frames) <= MaxEpLen
        /\ heap' = BW_observation(heap, env_buffer, f)
        /\ ep_frames' = Append(ep_frames, f)
        /\ UNCHANGED <<env_buffer, n_resets>>
        /\ UNCHANGED <<bufVars, agentVars, netVars, lossVars, loopVars>>

NextStack == StackReset \/ StackStep

SpecStack == InitStack /\ [][NextStack]_vars

(* ------------------------------------------------------------------ *)
(* The replay buffer on its own: any capacity, any appends and samples. *)
(* ------------------------------------------------------------------ *)

InitBuf ==
    /\ InitNoStack
    /\ \E capacity \in 0..MaxCap : exp_buffer = EB_init(capacity)
    /\ InitNoCall
    /\ InitNoAgent
    /\ InitNoNet
    /\ InitNoLoss
    /\ InitNoLoop

\* exp_buffer.append(e); the call returns nothing.
BufAppend ==
    \E e \in Items :
        /\ Len(appended) < MaxAppends
        /\ exp_buffer' = EB_append(exp_buffer, e)
        /\ appended' = Append(appended, e)
        /\ batch_size' = 0
        /\ indices' = <<>>
        /\ batch' = <<>>
        /\ raised' = ""
        /\ UNCHANGED <<stackVars, agentVars, netVars, lossVars, loopVars>>

\* exp_buffer.sample(k), k >= 1: np.random.choice draws the indices or raises.
BufSampleConsume ==
    \E k \in 1..MaxK :
        \E c \in Choice(EB_len(exp_buffer), k) :
            /\ batch_size' = k
            /\ raised' = c.raised
            /\ indices' = c.idx
            /\ batch' = IF c.raised = "" THEN EB_pick(exp_buffer, c.idx) ELSE <<>>
            /\ exp_buffer' =
                   [exp_buffer EXCEPT !.buffer = SubSeq(@, Len(c.idx) + 1, Len(@))]
            /\ UNCHANGED appended
            /\ UNCHANGED <<stackVars, agentVars, netVars, lossVars, loopVars>>
BufSample ==
    \E k \in 1..MaxK :
        \E c \in Choice(EB_len(exp_buffer), k) :
            /\ batch_size' = k
            /\ raised' = c.raised
            /\ indices' = c.idx
            /\ batch' = IF c.raised = "" THEN EB_pick(exp_buffer, c.idx) ELSE <<>>
            /\ UNCHANGED <<exp_buffer, appended>>
            /\ UNCHANGED <<stackVars, agentVars, netVars, lossVars, loopVars>>

NextBuf == BufAppend \/ BufSample

SpecBuf == InitBuf /\ [][NextBuf]_vars

(* ------------------------------------------------------------------ *)
(* calc_loss on its own: any batch over two states, any weights.        *)
(* ------------------------------------------------------------------ *)

\* The arrays the transitions of a batch refer to.
LossStates == << <<0, 0, 0, 1>>, <<0, 0, 1, 2>> >>

\* The transitions of a batch.
LossExps ==
    [state : 1..Len(LossStates), action : Actions, reward : Rewards,
     done : BOOLEAN, new_state : 1..Len(LossStates)]

InitLoss ==
    /\ heap = LossStates
    /\ env_buffer = 0 /\ ep_frames = <<>> /\ n_resets = 0
    /\ exp_buffer = NoBuffer
    /\ appended = <<>> /\ batch_size = 0 /\ indices = <<>> /\ raised = ""
    /\ \E n \in 1..MaxBatch : batch \in SeqsOfLen(LossExps, n)
    /\ InitNoAgent
    /\ \E w \in Weights : models = <<DQN_init(w)>>
    /\ net = 1
    /\ tgt_net = [model |-> 0, target_model |-> 0]
    /\ tgt_calls = <<>>
    /\ InitNoLoss
    /\ InitNoLoop

\* loss_v = calc_loss(batch, net)
LossCall ==
    /\ loss_v = NoLoss
    /\ y' = CL_y(models[net].w, heap, batch)
    /\ loss_v' = calc_loss(models[net].w, heap, batch)
    /\ UNCHANGED <<stackVars, bufVars, agentVars, netVars, loopVars>>

NextLoss == LossCall

SpecLoss == InitLoss /\ [][NextLoss]_vars

(* ------------------------------------------------------------------ *)
(* The TargetNet on its own: sync calls, and its model's owner          *)
(* changing the model's parameters in place between them.               *)
(* ------------------------------------------------------------------ *)

InitTgt ==
    /\ InitNoStack
    /\ exp_buffer = NoBuffer
    /\ InitNoCall
    /\ InitNoAgent
    /\ \E w \in Weights :
           LET t == TargetNet_init(<<DQN_init(w)>>, 1)
           IN  models = t.models /\ tgt_net = t.tgt_net
    /\ net = 1
    /\ tgt_calls = <<>>
    /\ InitNoLoss
    /\ InitNoLoop

\* tgt_net.sync()
TgtSync ==
    /\ Len(tgt_calls) < MaxTgtCalls
    /\ models' = TargetNet_sync(models, tgt_net)
    /\ tgt_calls' = Append(tgt_calls, "sync")
    /\ UNCHANGED <<net, tgt_net>>
    /\ UNCHANGED <<stackVars, bufVars, agentVars, lossVars, loopVars>>

\* The owner of the model changes its parameters in place (tgt_net.model is
\* the owner's module, not a copy), as an optimizer over net.parameters() does.
TgtOwnerUpdate ==
    \E w \in Weights :
        /\ Len(tgt_calls) < MaxTgtCalls
        /\ w # models[tgt_net.model].w
        /\ models' = [models EXCEPT ![tgt_net.model].w = w]
        /\ tgt_calls' = Append(tgt_calls, "update")
        /\ UNCHANGED <<net, tgt_net>>
        /\ UNCHANGED <<stackVars, bufVars, agentVars, lossVars, loopVars>>

NextTgt == TgtSync \/ TgtOwnerUpdate

SpecTgt == InitTgt /\ [][NextTgt]_vars

(* ------------------------------------------------------------------ *)
(* The Agent on its own: any sequence of play_step calls.               *)
(* ------------------------------------------------------------------ *)

\* env, net, exp_buffer and Agent(env, exp_buffer); __init__ calls _reset.
InitAgent ==
    /\ \E f0 \in Frames :
           LET r == Agent_reset(<<>>, 0, NoAgent, f0)
           IN  /\ heap = r.heap
               /\ env_buffer = r.env_buffer
               /\ agent = r.agent
               /\ ep_frames = <<f0>>
    /\ n_resets = 1
    /\ exp_buffer = EB_init(REPLAY_SIZE)
    /\ InitNoCall
    /\ ep_rewards = <<>>
    /\ done_reward = None
    /\ \E w \in Weights : models = <<DQN_init(w)>>
    /\ net = 1
    /\ tgt_net = [model |-> 0, target_model |-> 0]
    /\ tgt_calls = <<>>
    /\ InitNoLoss
    /\ InitNoLoop

\* The calls the program makes: play_step(None, epsilon=1.0) and
\* play_step(net, epsilon) with any epsilon (0 and 1.0 give the two branches).
AgentCall ==
    \E call \in {[n |-> 0, eps |-> EpsOne], [n |-> net, eps |-> 0], [n |-> net, eps |-> EpsOne]} :
        /\ Len(appended) < MaxPlaySteps
        /\ Agent_play_step(call.n, call.eps, Actions, Frames, Rewards, BOOLEAN)
        /\ UNCHANGED <<batch_size, indices, batch>>
        /\ UNCHANGED <<netVars, lossVars, loopVars>>

NextAgent == AgentCall

SpecAgent == InitAgent /\ [][NextAgent]_vars

(* ------------------------------------------------------------------ *)
(* The program: __main__.                                               *)
(* ------------------------------------------------------------------ *)

\* The state when the warmup loop is reached: env, net, tgt_net, exp_buffer,
\* agent (its __init__ resets the environment), epsilon = 1.0.
Init ==
    /\ \E f0 \in MainFrames :
           LET r == Agent_reset(<<>>, 0, NoAgent, f0)
           IN  /\ heap = r.heap
               /\ env_buffer = r.env_buffer
               /\ agent = r.agent
               /\ ep_frames = <<f0>>
    /\ n_resets = 1
    /\ exp_buffer = EB_init(REPLAY_SIZE)
    /\ InitNoCall
    /\ ep_rewards = <<>>
    /\ done_reward = None
    /\ \E w \in Weights :
           LET t == TargetNet_init(<<DQN_init(w)>>, 1)
           IN  models = t.models /\ tgt_net = t.tgt_net
    /\ net = 1
    /\ tgt_calls = <<>>
    /\ InitNoLoss
    /\ epsilon = EpsOne
    /\ frame_idx = 0
    /\ warm = 0
    /\ pc = "warmup"

\* The is_done flags the emulator can give now.
MainDones == IF n_resets < MaxResets THEN BOOLEAN ELSE {FALSE}

\* for _ in range(REPLAY_START_SIZE): agent.play_step(None, epsilon=1.0)
Warmup ==
    /\ pc = "warmup"
    /\ warm < REPLAY_START_SIZE
    /\ Agent_play_step(0, EpsOne, MainSampled, MainFrames, MainRewards, MainDones)
    /\ warm' = warm + 1
    /\ pc' = IF raised' = "" THEN "warmup" ELSE "crashed"
    /\ UNCHANGED <<batch_size, indices, batch, epsilon, frame_idx>>
    /\ UNCHANGED <<netVars, lossVars>>

\* print("Start learning"); frame_idx = 0
StartLearningEarly ==
    /\ pc = "warmup"
    /\ warm <= REPLAY_START_SIZE
    /\ frame_idx' = 0
    /\ pc' = "play"
    /\ UNCHANGED <<epsilon, warm>>
    /\ UNCHANGED <<stackVars, bufVars, agentVars, netVars, lossVars>>
StartLearning ==
    /\ pc = "warmup"
    /\ warm = REPLAY_START_SIZE
    /\ frame_idx' = 0
    /\ pc' = "play"
    /\ UNCHANGED <<epsilon, warm>>
    /\ UNCHANGED <<stackVars, bufVars, agentVars, netVars, lossVars>>

\* reward = agent.play_step(tgt_net.target_model, epsilon=epsilon)
Play ==
    /\ pc = "play"
    /\ frame_idx < MaxFrames
    /\ Agent_play_step(tgt_net.target_model, epsilon, MainSampled, MainFrames, MainRewards, MainDones)
    /\ pc' = IF raised' = "" THEN "learn" ELSE "crashed"
    /\ UNCHANGED <<batch_size, indices, batch, epsilon, frame_idx, warm>>
    /\ UNCHANGED <<netVars, lossVars>>

\* if len(exp_buffer) >= BATCH_SIZE: batch = exp_buffer.sample(BATCH_SIZE);
\* optimizer.zero_grad(); loss_v = calc_loss(batch, net); loss_v.backward()
Learn ==
    /\ pc = "learn"
    /\ IF EB_len(exp_buffer) >= BATCH_SIZE
       THEN \E c \in Choice(EB_len(exp_buffer), BATCH_SIZE) :
                /\ batch_size' = BATCH_SIZE
                /\ raised' = c.raised
                /\ indices' = c.idx
                /\ IF c.raised # ""
                   THEN /\ pc' = "crashed"
                        /\ UNCHANGED <<batch, models, y, loss_v>>
                   ELSE /\ batch' = EB_pick(exp_buffer, c.idx)
                        /\ y' = CL_y(models[net].w, heap, batch')
                        /\ loss_v' = calc_loss(models[net].w, heap, batch')
                        /\ models' = [models EXCEPT ![net] =
                               Backward(Optimizer_zero_grad(@),
                                        Gradient(models[net].w, heap, batch'))]
                        /\ pc' = "epsilon"
       ELSE /\ pc' = "epsilon"
            /\ UNCHANGED <<batch_size, raised, indices, batch, models, y, loss_v>>
    /\ UNCHANGED <<exp_buffer, appended, net, tgt_net, tgt_calls, epsilon, frame_idx, warm>>
    /\ UNCHANGED <<stackVars, agentVars>>

\* epsilon = max(0.1, 1.0 - frame_idx / 10**6)
DecayEpsilon ==
    /\ pc = "epsilon"
    /\ epsilon' = EpsilonAt(frame_idx)
    /\ pc' = "sync"
    /\ UNCHANGED <<frame_idx, warm>>
    /\ UNCHANGED <<stackVars, bufVars, agentVars, netVars, lossVars>>

\* if frame_idx % SYNC_TARGET_FRAMES == 0: tgt_net.sync()
SyncSkipZero ==
    /\ pc = "sync"
    /\ IF frame_idx > 0 /\ frame_idx % SYNC_TARGET_FRAMES = 0
       THEN /\ models' = TargetNet_sync(models, tgt_net)
            /\ tgt_calls' = Append(tgt_calls, "sync")
       ELSE UNCHANGED <<models, tgt_calls>>
    /\ pc' = "inc"
    /\ UNCHANGED <<net, tgt_net, epsilon, frame_idx, warm>>
    /\ UNCHANGED <<stackVars, bufVars, agentVars, lossVars>>
Sync ==
    /\ pc = "sync"
    /\ IF frame_idx % SYNC_TARGET_FRAMES = 0
       THEN /\ models' = TargetNet_sync(models, tgt_net)
            /\ tgt_calls' = Append(tgt_calls, "sync")
       ELSE UNCHANGED <<models, tgt_calls>>
    /\ pc' = "inc"
    /\ UNCHANGED <<net, tgt_net, epsilon, frame_idx, warm>>
    /\ UNCHANGED <<stackVars, bufVars, agentVars, lossVars>>

\* frame_idx += 1
NextFrame ==
    /\ pc = "inc"
    /\ frame_idx' = frame_idx + 1
    /\ pc' = "play"
    /\ UNCHANGED <<epsilon, warm>>
    /\ UNCHANGED <<stackVars, bufVars, agentVars, netVars, lossVars>>

Next == Warmup \/ StartLearning \/ Play \/ Learn \/ DecayEpsilon \/ Sync \/ NextFrame

Spec == Init /\ [][Next]_vars

(* ------------------------------------------------------------------ *)
(* The claims.                                                          *)
(* ------------------------------------------------------------------ *)

Range(s) == {s[i] : i \in DOMAIN s}

\* C1: after every append the buffer is no longer than its capacity and holds
\* exactly the most recent `capacity` appended items, in insertion order (all
\* of them while fewer have been appended).
C1_BoundedFifo ==
    /\ EB_len(exp_buffer) <= exp_buffer.capacity
    /\ exp_buffer.buffer = LastK(appended, exp_buffer.capacity)

\* C1 witness: capacity 3 and appends A, B, C, D leave exactly [B, C, D].
C1_Witness ==
    /\ exp_buffer.capacity = 3
    /\ appended = <<"A", "B", "C", "D">>
    /\ exp_buffer.buffer = <<"B", "C", "D">>

\* C3: a sample(k) call on a buffer of at least k transitions returns k
\* transitions read at k pairwise distinct positions of the buffer; with k the
\* buffer's size every position is read, so the result is a permutation.
C3_SampleDistinct ==
    (batch_size > 0 /\ batch_size <= EB_len(exp_buffer)) =>
        /\ raised = ""
        /\ Len(batch) = batch_size
        /\ Len(indices) = batch_size
        /\ \A i \in 1..batch_size :
               /\ indices[i] \in 0..(EB_len(exp_buffer) - 1)
               /\ batch[i] = exp_buffer.buffer[indices[i] + 1]
        /\ \A i, j \in 1..batch_size : i # j => indices[i] # indices[j]
        /\ (batch_size = EB_len(exp_buffer)) =>
               Range(indices) = 0..(EB_len(exp_buffer) - 1)

\* C3 witness: sample(3) on the buffer [B, C, D] returned a permutation that
\* is not in the buffer's order.
C3_Witness ==
    /\ exp_buffer.buffer = <<"B", "C", "D">>
    /\ batch_size = 3
    /\ batch = <<"D", "B", "C">>

\* C4: a sample(k) call with k greater than the buffer's size raises
\* (ValueError), returns no batch and leaves the buffer as it was.
C4_SampleUnderflow ==
    [][(batch_size' > 0 /\ batch_size' > EB_len(exp_buffer)) =>
           /\ raised' = "ValueError"
           /\ batch' = <<>>
           /\ exp_buffer' = exp_buffer]_vars

\* C4 witness: sample(4) on the buffer [B, C, D] has raised.
C4_Witness ==
    /\ exp_buffer.buffer = <<"B", "C", "D">>
    /\ batch_size = 4
    /\ raised = "ValueError"

\* C2: in every iteration of the training loop in which the buffer holds at
\* least BATCH_SIZE transitions and the sampled batch gives a gradient that
\* is not zero, the value network's weights are changed by a gradient step.
C2_GradientStep ==
    [][(/\ pc = "learn"
        /\ pc' = "epsilon"
        /\ EB_len(exp_buffer) >= BATCH_SIZE
        /\ models'[net].grad # <<[a \in Actions |-> 0]>>)
       => models'[net].w # models[net].w]_vars

\* The value of epsilon after the iteration with frame index f, in units of
\* 1 / EpsUnits: max(EPS_FLOOR_NUM / EPS_FLOOR_DEN, 1 - f / EPS_DECAY_FRAMES).
C5_Expected(f) ==
    IF EPS_FLOOR_DEN * (EPS_DECAY_FRAMES - f) >= EPS_FLOOR_NUM * EPS_DECAY_FRAMES
    THEN EPS_FLOOR_DEN * (EPS_DECAY_FRAMES - f)
    ELSE EPS_FLOOR_NUM * EPS_DECAY_FRAMES

\* C5: epsilon is 1.0 until the iteration with frame index 0 has recomputed
\* it (which gives 1.0 again), after the iteration with frame index f it is
\* max(0.1, 1 - f / 10^6), it is never below the floor, it is at the floor
\* from f = 9/10 of the decay horizon on, and it never increases.
C5_Epsilon ==
    /\ [](/\ epsilon >= EPS_FLOOR_NUM * EPS_DECAY_FRAMES
          /\ epsilon <= EpsUnits
          /\ (pc = "warmup" \/ frame_idx = 0) => epsilon = EpsUnits
          /\ (pc \in {"sync", "inc"}) => epsilon = C5_Expected(frame_idx)
          /\ (pc \in {"play", "learn", "epsilon"} /\ frame_idx > 0) =>
                 epsilon = C5_Expected(frame_idx - 1)
          /\ (pc \in {"sync", "inc"} /\ 10 * frame_idx >= 9 * EPS_DECAY_FRAMES) =>
                 epsilon * EPS_FLOOR_DEN = EPS_FLOOR_NUM * EpsUnits)
    /\ [][epsilon' <= epsilon]_vars

\* C5 witness: epsilon has come down to the floor and the loop goes on.
C5_Witness ==
    /\ pc = "play"
    /\ frame_idx > 0
    /\ 10 * (frame_idx - 1) >= 9 * EPS_DECAY_FRAMES
    /\ epsilon * EPS_FLOOR_DEN = EPS_FLOOR_NUM * EpsUnits
    /\ epsilon < EpsUnits

\* The step of the training loop that calls tgt_net.sync().
C6_IsSyncStep == pc = "sync" /\ frame_idx % SYNC_TARGET_FRAMES = 0

\* C6: the target model is a module of its own, and its parameters (values
\* and gradients) and the references of tgt_net change in no step of the
\* program other than the one that calls tgt_net.sync().
C6_TargetFrozen ==
    /\ [](tgt_net.target_model # tgt_net.model)
    /\ [][(tgt_net' # tgt_net \/ models'[tgt_net'.target_model] # models[tgt_net.target_model])
           => C6_IsSyncStep]_vars

\* C6 witness: in an iteration that does not sync, the gradient work on the
\* value network is done and the target model has no gradient and the weights
\* it was constructed with.
C6_Witness ==
    /\ pc = "sync"
    /\ frame_idx % SYNC_TARGET_FRAMES # 0
    /\ models[net].grad # None
    /\ models[net].grad # <<[a \in Actions |-> 0]>>
    /\ models[tgt_net.target_model].grad = None
    /\ models[tgt_net.target_model].w = models[net].w

\* C7: a sync makes the target's parameter values those of the model and
\* leaves the model as it is; a sync that follows a sync directly changes
\* nothing at all.
C7_SyncIdempotent ==
    [][(tgt_calls' = Append(tgt_calls, "sync")) =>
           /\ models'[tgt_net.target_model].w = models[tgt_net.model].w
           /\ models'[tgt_net.model] = models[tgt_net.model]
           /\ (tgt_calls # <<>> /\ tgt_calls[Len(tgt_calls)] = "sync") => models' = models]_vars

\* C7 witness: the model was changed after the TargetNet was made, and two
\* syncs in a row have run since.
C7_Witness ==
    /\ tgt_calls = <<"update", "sync", "sync">>
    /\ models[tgt_net.target_model].w = models[tgt_net.model].w
    /\ tgt_net.target_model # tgt_net.model

\* C8: after calc_loss, the target at the taken action's index is the reward
\* for a transition with done, and reward + GAMMA * (the largest value the
\* same net gives to the next state) for one without.
C8_Target ==
    (pc = "unit" /\ loss_v # NoLoss) =>
        \A i \in 1..Len(batch) :
            LET e == batch[i]
                nq == DQN_forward(models[net].w, heap[e.new_state])
            IN  /\ e.done => y[i][e.action] = GAMMA_DEN * e.reward
                /\ ~e.done =>
                       \E a \in Actions :
                           /\ \A b \in Actions : nq[b] <= nq[a]
                           /\ y[i][e.action] = GAMMA_DEN * e.reward + GAMMA_NUM * nq[a]

\* C8 witness: a batch of a terminal and a non-terminal transition whose next
\* states the net values above zero; the terminal one's target is its reward.
C8_Witness ==
    /\ loss_v # NoLoss
    /\ Len(batch) = 2
    /\ batch[1].done /\ batch[1].reward = 1
    /\ ~batch[2].done
    /\ \E a \in Actions : DQN_forward(models[net].w, heap[batch[1].new_state])[a] > 0
    /\ y[1][batch[1].action] = GAMMA_DEN

\* C9: a play_step call appends exactly one transition; it returns None
\* exactly when the step did not end the episode; when it did, it returns the
\* sum of the rewards since the agent's last reset, the last one included,
\* and leaves the accumulator at 0 and the state a copy of the window a fresh
\* environment reset gave.
C9_PlayStep ==
    [][(Len(appended') = Len(appended) + 1) =>
           LET e == appended'[Len(appended')]
           IN  /\ appended' = Append(appended, e)
               /\ exp_buffer'.buffer =
                      LastK(Append(exp_buffer.buffer, e), exp_buffer.capacity)
               /\ (done_reward' = None) <=> ~e.done
               /\ ~e.done =>
                      /\ agent'.total_reward = SumSeq(ep_rewards) + e.reward
                      /\ n_resets' = n_resets
               /\ e.done =>
                      /\ done_reward' = <<SumSeq(ep_rewards) + e.reward>>
                      /\ agent'.total_reward = 0
                      /\ n_resets' = n_resets + 1
                      /\ Len(ep_frames') = 1
                      /\ heap'[agent'.state] = [ZerosLike EXCEPT ![N_STEPS] = ep_frames'[1]]
                      /\ heap'[agent'.state] = heap'[env_buffer']]_vars

\* C9 witness: two steps with reward 1, the second ending the episode:
\* play_step returned 2 and the agent is reset.
C9_Witness ==
    /\ Len(appended) = 2
    /\ ~appended[1].done /\ appended[1].reward = 1
    /\ appended[2].done /\ appended[2].reward = 1
    /\ done_reward = <<2>>
    /\ agent.total_reward = 0
    /\ n_resets = 2

\* C10: the window is always N_STEPS frames deep and holds, newest last, the
\* frames of the current episode, preceded by zeros while the episode has
\* fewer than N_STEPS frames: nothing of an earlier episode is in it.
C10_FrameStack ==
    env_buffer # 0 =>
        /\ Len(heap[env_buffer]) = N_STEPS
        /\ heap[env_buffer] = LastK(ZerosLike \o ep_frames, N_STEPS)

\* C10 witness: a second episode, one step in, with frames 1, 1, after a
\* first episode whose window held a frame 2.
C10_Witness ==
    /\ n_resets = 2
    /\ ep_frames = <<1, 1>>
    /\ 2 \in Range(heap[1])
    /\ heap[env_buffer] = <<0, 0, 1, 1>>

\* C11: the run starts in the warmup loop and leaves it once, for the training
\* loop, when exactly REPLAY_START_SIZE transitions have been collected; it
\* never comes back and nothing raises.  While it is in the warmup loop every
\* action is one that action_space.sample() gave (play_step never evaluates
\* its net argument, None), no batch has been sampled, no loss computed, the
\* target never synced, and epsilon and the frame index are as initialised.
C11_Warmup ==
    /\ pc = "warmup"
    /\ [](/\ pc # "crashed"
          /\ raised = ""
          /\ pc = "warmup" =>
                 /\ Len(appended) = warm
                 /\ warm <= REPLAY_START_SIZE
                 /\ \A i \in 1..Len(appended) : appended[i].action \in MainSampled
                 /\ batch_size = 0 /\ indices = <<>> /\ batch = <<>>
                 /\ y = <<>> /\ loss_v = NoLoss
                 /\ tgt_calls = <<>>
                 /\ \A i \in 1..Len(models) : models[i].grad = None
                 /\ models[tgt_net.target_model].w = models[net].w
                 /\ epsilon = EpsOne
                 /\ frame_idx = 0)
    /\ [][/\ (pc = "warmup" /\ pc' # "warmup") =>
                  /\ pc' = "play"
                  /\ Len(appended) = REPLAY_START_SIZE
                  /\ appended' = appended
          /\ (pc # "warmup") => (pc' # "warmup")]_vars

\* C11 witness: the first iteration of the training loop has played its step
\* right after the warmup collected REPLAY_START_SIZE transitions, and nothing
\* has been sampled yet.
C11_Witness ==
    /\ pc = "learn"
    /\ frame_idx = 0
    /\ warm = REPLAY_START_SIZE
    /\ Len(appended) = REPLAY_START_SIZE + 1
    /\ batch_size = 0
    /\ loss_v = NoLoss

\* C12: from the end of the warmup on the buffer holds at least BATCH_SIZE
\* transitions and its size never decreases, so every iteration of the
\* training loop takes the sampling branch, sample(BATCH_SIZE) is called on a
\* buffer of at least BATCH_SIZE transitions and returns a batch of that
\* length, and no ValueError is ever raised.
C12_NoUnderflow ==
    /\ [](/\ raised # "ValueError"
          /\ pc # "crashed"
          /\ EB_len(exp_buffer) = Min(Len(appended), REPLAY_SIZE)
          /\ (pc # "warmup") =>
                 /\ EB_len(exp_buffer) >= REPLAY_START_SIZE
                 /\ EB_len(exp_buffer) >= BATCH_SIZE)
    /\ [][/\ EB_len(exp_buffer') >= EB_len(exp_buffer)
          /\ (pc = "learn") =>
                 /\ batch_size' = BATCH_SIZE
                 /\ BATCH_SIZE <= EB_len(exp_buffer)
                 /\ raised' = ""
                 /\ Len(batch') = BATCH_SIZE
                 /\ \A i \in 1..BATCH_SIZE : batch'[i] = exp_buffer.buffer[indices'[i] + 1]]_vars

\* C12 witness: a batch has been sampled from a buffer that is full and has
\* already dropped its oldest transition.
C12_Witness ==
    /\ pc = "epsilon"
    /\ Len(appended) > REPLAY_SIZE
    /\ EB_len(exp_buffer) = REPLAY_SIZE
    /\ batch_size = BATCH_SIZE
    /\ Len(batch) = BATCH_SIZE
    /\ raised = ""

\* The number of multiples of SYNC_TARGET_FRAMES among 0 .. f - 1.
C13_Multiples(f) == (f + SYNC_TARGET_FRAMES - 1) \div SYNC_TARGET_FRAMES

\* C13: the target has been synced once for every iteration of the training
\* loop, finished or past its sync statement, whose frame index is a multiple
\* of SYNC_TARGET_FRAMES (0 included), and never otherwise; an iteration does
\* the environment step, the learning step, the recomputation of epsilon, the
\* sync statement and the increment in this order; the sync statement finds
\* the transition and the epsilon of its own iteration; the frame index grows
\* by exactly 1 per iteration and changes nowhere else.
C13_SyncSchedule ==
    /\ [](/\ (pc = "warmup") => tgt_calls = <<>>
          /\ (pc \in {"play", "learn", "epsilon", "sync"}) =>
                 Len(tgt_calls) = C13_Multiples(frame_idx)
          /\ (pc = "inc") => Len(tgt_calls) = C13_Multiples(frame_idx + 1)
          /\ \A i \in 1..Len(tgt_calls) : tgt_calls[i] = "sync"
          /\ (pc \in {"sync", "inc"}) =>
                 /\ Len(appended) = REPLAY_START_SIZE + frame_idx + 1
                 /\ epsilon = EpsilonAt(frame_idx)
                 /\ batch_size = BATCH_SIZE)
    /\ [][/\ (tgt_calls' # tgt_calls) <=>
                 (pc = "sync" /\ frame_idx % SYNC_TARGET_FRAMES = 0)
          /\ (tgt_calls' # tgt_calls) =>
                 /\ tgt_calls' = Append(tgt_calls, "sync")
                 /\ pc' = "inc"
          /\ (pc = "play") => (pc' = "learn" /\ Len(appended') = Len(appended) + 1)
          /\ (pc = "learn") => (pc' = "epsilon" /\ loss_v' # NoLoss)
          /\ (pc = "epsilon") => (pc' = "sync" /\ epsilon' = EpsilonAt(frame_idx))
          /\ (pc = "sync") => pc' = "inc"
          /\ (pc = "inc") => (pc' = "play" /\ frame_idx' = frame_idx + 1)
          /\ (pc # "inc") => frame_idx' = frame_idx]_vars

\* C13 witness: the second sync has just run, in the iteration with frame
\* index SYNC_TARGET_FRAMES, after an iteration that did not sync.
C13_Witness ==
    /\ pc = "inc"
    /\ frame_idx = SYNC_TARGET_FRAMES
    /\ SYNC_TARGET_FRAMES > 1
    /\ tgt_calls = <<"sync", "sync">>

\* C14: until the first sync the target model has the parameter values the
\* value network was constructed with (and still has); it takes the value
\* network's current values in a step that syncs and keeps its own in every
\* other step; the action of a step of the training loop is one that
\* action_space.sample() gave or a maximum of what the target model gives the
\* agent's state (the former when epsilon is 1.0); the learning step computes
\* the targets and the loss with the value network, whose gradients it sets,
\* and leaves the target model without any.
C14_WhichNet ==
    /\ [](/\ tgt_net.model = net
          /\ tgt_net.target_model # net
          /\ (tgt_calls = <<>>) => models[tgt_net.target_model].w = models[net].w)
    /\ [][/\ IF pc = "sync" /\ frame_idx % SYNC_TARGET_FRAMES = 0
             THEN models'[tgt_net.target_model].w = models[net].w
             ELSE models'[tgt_net.target_model].w = models[tgt_net.target_model].w
          /\ (pc = "play") =>
                 LET action == appended'[Len(appended')].action
                     q == DQN_forward(models[tgt_net.target_model].w, heap[agent.state])
                 IN  /\ appended'[Len(appended')].state = agent.state
                     /\ action \in MainSampled \cup ArgMax(q)
                     /\ (epsilon = EpsOne) => action \in MainSampled
          /\ (pc = "learn") =>
                 /\ y' = CL_y(models[net].w, heap, batch')
                 /\ loss_v' = MSELoss(CL_q(models[net].w, heap, batch'), y')
                 /\ models'[net].grad = <<Gradient(models[net].w, heap, batch')>>
                 /\ models'[tgt_net.target_model].grad = None]_vars

\* C14 witness: with the target model valuing action 1 above action 0, a step
\* of the training loop took action 1, which action_space.sample() does not
\* give, and the learning step that followed gave the value network a gradient.
C14_Witness ==
    /\ pc = "epsilon"
    /\ frame_idx > 0
    /\ epsilon < EpsOne
    /\ appended[Len(appended)].action = 1
    /\ 1 \notin MainSampled
    /\ models[tgt_net.target_model].w[1] > models[tgt_net.target_model].w[0]
    /\ models[net].grad # None
    /\ models[tgt_net.target_model].grad = None

\* The sum over the batch's samples of the squared difference between the
\* value network's estimate at the taken action and the sample's target.
C15_SquaredErrors ==
    SumSeq([i \in 1..Len(batch) |->
               LET e == batch[i]
                   q == GAMMA_DEN * DQN_forward(models[net].w, heap[e.state])[e.action]
               IN  (q - y[i][e.action]) * (q - y[i][e.action])])

\* C15: the loss calc_loss returns is the mean over the batch's samples of the
\* squared difference between the estimate at the taken action and the
\* sample's target: loss = C15_SquaredErrors / Len(batch).
C15_MeanOverSamples ==
    (pc = "unit" /\ loss_v # NoLoss) =>
        loss_v.num * Len(batch) = loss_v.den * C15_SquaredErrors

\* C16: the arrays a transition passed to append refers to are never written
\* again: whatever the environment does later (steps, which update the live
\* window in place, and resets), the state and the new_state of every
\* transition appended so far keep their contents, and neither is the
\* environment's live window.
C16_Immutable ==
    /\ [](\A i \in 1..Len(appended) :
              /\ appended[i].state # env_buffer
              /\ appended[i].new_state # env_buffer
              /\ appended[i].state # appended[i].new_state)
    /\ [][\A i \in 1..Len(appended) :
              /\ appended'[i] = appended[i]
              /\ heap'[appended[i].state] = heap[appended[i].state]
              /\ heap'[appended[i].new_state] = heap[appended[i].new_state]]_vars

\* C16 witness: two steps of one episode have been played; the live window
\* has moved on twice and the first transition still holds the window of the
\* reset as its state and the window after the first step as its new_state.
C16_Witness ==
    /\ Len(appended) = 2
    /\ n_resets = 1
    /\ Len(ep_frames) = 3
    /\ heap[appended[1].state] = [ZerosLike EXCEPT ![N_STEPS] = ep_frames[1]]
    /\ heap[appended[1].new_state] =
           [ZerosLike EXCEPT ![N_STEPS - 1] = ep_frames[1], ![N_STEPS] = ep_frames[2]]
    /\ heap[env_buffer] # heap[appended[1].new_state]
    /\ heap[env_buffer] = heap[appended[2].new_state]

\* C17: a sample call leaves the buffer as it was, contents and order; so,
\* however many samples are taken in between, the transition passed to the
\* i-th append is in the buffer exactly while fewer than `capacity` appends
\* have followed it, at the position its age gives it.
C17_SampleKeeps ==
    /\ [][(batch_size' > 0) =>
              /\ exp_buffer' = exp_buffer
              /\ appended' = appended]_vars
    /\ [](/\ EB_len(exp_buffer) = Min(Len(appended), exp_buffer.capacity)
          /\ \A i \in 1..Len(appended) :
                 (Len(appended) - i < exp_buffer.capacity) =>
                     exp_buffer.buffer[EB_len(exp_buffer) - (Len(appended) - i)] = appended[i])

\* C17 witness: a batch holding C and B has been sampled from [B, C, D] and
\* all three are still there, in order; A was dropped by the append of D.
C17_Witness ==
    /\ appended = <<"A", "B", "C", "D">>
    /\ exp_buffer.capacity = 3
    /\ batch_size = 2
    /\ batch = <<"C", "B">>
    /\ exp_buffer.buffer = <<"B", "C", "D">>

\* C18: of two transitions appended one after the other, the later one's
\* state is the earlier one's new_state when the earlier one did not end the
\* episode; when it did, the later one's state is another array, the window
\* of a fresh reset (zeros and one frame), which differs from the terminal
\* new_state.  The agent's own state is to the last transition what the next
\* transition's state will be, and the first transition starts at the window
\* of the first reset.
C18_Chain ==
    /\ \A i \in 1..Len(appended) :
           LET e == appended[i]
               next_state == IF i < Len(appended) THEN appended[i + 1].state ELSE agent.state
           IN  /\ ~e.done => next_state = e.new_state
               /\ e.done =>
                      /\ next_state # e.new_state
                      /\ \A k \in 1..(N_STEPS - 1) : heap[next_state][k] = 0
                      /\ heap[next_state][N_STEPS] # 0
                      /\ heap[next_state] # heap[e.new_state]
    /\ (appended # <<>>) => heap[appended[1].state] \in {[ZerosLike EXCEPT ![N_STEPS] = f] : f \in Frames}

\* C18 witness: in the training loop, a transition that ended an episode in
\* the warmup is followed by one that starts at the reset's window, which is
\* followed by one that starts where it ended.
C18_Witness ==
    /\ pc # "warmup"
    /\ \E i \in 1..Len(appended) :
           /\ i + 2 <= Len(appended)
           /\ i <= REPLAY_START_SIZE
           /\ appended[i].done
           /\ ~appended[i + 1].done
           /\ appended[i + 1].state # appended[i].new_state
           /\ appended[i + 2].state = appended[i + 1].new_state

====
